---- MODULE Spec2Model ----
(***************************************************************************)
(* A model of src/src/Controller.py: the Controller of the quadruped, its  *)
(* run() tick, step_gait() and set_pose_to_default().                      *)
(*                                                                         *)
(* Python raises an exception where a name or an attribute does not        *)
(* resolve, where a dict has no entry for a key and where a call passes    *)
(* the wrong number of arguments.  A call is modelled as one atomic step   *)
(* that ends either by returning or by raising; what it assigned before    *)
(* raising stays assigned.                                                 *)
(*                                                                         *)
(* Lengths are in millimetres, so that default_stance + offset is exact.   *)
(* Measured angles are IEEE-754 doubles (see the section on doubles).      *)
(***************************************************************************)
EXTENDS Integers, Sequences, FiniteSets, TLC

VARIABLES
    state,        \* the State object the caller passes to run()
    controller,   \* the Controller instance's own fields (self.*)
    command,      \* the Command of the last call
    op,           \* the method called last
    raised,       \* the exception the last call ended with, or None
    executed,     \* source lines of the assignments the last call completed
    returned,     \* the value the last call returned
    calls,        \* number of calls made so far
    pre,          \* state and controller as they were when the last call began
    hop_streak,   \* consecutive hop-only run() calls, counted from one begun in REST
    tilt          \* locals of run()'s tilt compensation (lines 114-118)

vars == <<state, controller, command, op, raised, executed, returned, calls,
          pre, hop_streak, tilt>>

----------------------------------------------------------------------------
(* Bounds of the model *)

MaxCalls == 4
MaxYawRate == 1
MaxAngle8 == 4

----------------------------------------------------------------------------
(* Python's name spaces *)

None == "None"
NoAttr == "<unset>"

\* src.State.BehaviorState
BehaviorState == {"DEACTIVATED", "REST", "TROT", "HOP", "FINISHHOP"}

\* the names bound at module level (the imports and the class)
GlobalNames ==
    {"GaitController", "StanceController", "SwingController",
     "clipped_first_order_filter", "four_legs_inverse_kinematics",
     "BehaviorState", "State", "np", "euler2mat", "quat2euler", "qconjugate",
     "quat2axangle", "axangle2mat", "Controller"}

\* the attributes a Controller instance has: those __init__ sets, and the methods
ControllerAttrs ==
    {"config", "smoothed_yaw", "four_legs_inverse_kinematics", "previous_state",
     "foot_locations", "contact_modes", "joint_angles", "gait_controller",
     "swing_controller", "stance_controller", "hop_transition_mapping",
     "trot_transition_mapping", "activate_transition_mapping",
     "step_gait", "run", "set_pose_to_default"}

\* the local names of each method: its parameters and what it assigns
StepGaitParams == <<"ticks", "foot_locations", "command">>
StepGaitLocals ==
    {"self", "ticks", "foot_locations", "command", "contact_modes",
     "new_foot_locations", "leg_index", "contact_mode", "foot_location",
     "new_location", "swing_proportion"}
RunLocals ==
    {"self", "state", "command", "foot_locations", "contact_modes", "roll",
     "pitch", "yaw", "correction_factor", "max_tilt", "roll_compensation",
     "pitch_compensation", "rmat", "yaw_factor", "rotated_foot_locations"}
SetPoseLocals == {"self"}

\* the arguments run() passes to self.step_gait
RunStepGaitArgs == <<"state.ticks", "state.foot_locations", "self.config", "command">>

Resolves(name, locals) == name \in locals \cup GlobalNames

----------------------------------------------------------------------------
(* Config, State and the collaborators: not in Controller.py *)

Legs == 1..4

default_stance == << <<100, -90, 0>>, <<100, 90, 0>>, <<-100, -90, 0>>, <<-100, 90, 0>> >>
default_z_ref == -160
swing_ticks == 2
dt_ms == 10

Zeros34 == [leg \in Legs |-> <<0, 0, 0>>]
Zeros4 == [leg \in Legs |-> 0]
NoRotation == <<0, 0, 0>>

\* config.default_stance + np.array([0, 0, z])[:, np.newaxis]
StancePlus(z) ==
    [leg \in Legs |-> <<default_stance[leg][1], default_stance[leg][2],
                        default_stance[leg][3] + z>>]

\* Kinematics: the joint angles of foot locations fl rotated by rot (uninterpreted)
four_legs_inverse_kinematics(fl, rot) == [computed |-> TRUE, from |-> fl, rot |-> rot]
ZeroAngles == [computed |-> FALSE, from |-> Zeros34, rot |-> NoRotation]

\* GaitController.contacts: diagonal pairs alternate every swing_ticks ticks
contacts(ticks) ==
    IF (ticks \div swing_ticks) % 2 = 0 THEN <<1, 0, 0, 1>> ELSE <<0, 1, 1, 0>>
subphase_time(ticks) == ticks % swing_ticks

\* StanceController.next_foot_location: the foot moves against the commanded yaw rate
stance_next_foot_location(foot_location, cmd) ==
    <<foot_location[1] - 1, foot_location[2] - cmd.yaw_rate, foot_location[3]>>

\* SwingController.next_foot_location: the foot is lifted and moved forward
\* swing_proportion is the fraction <<numerator, denominator>>
swing_next_foot_location(swing_proportion, foot_location, leg_index, cmd) ==
    <<foot_location[1] + 1 + swing_proportion[1], foot_location[2] + cmd.yaw_rate,
      foot_location[3] + 10 + leg_index>>

\* clipped_first_order_filter(input, target, max_rate, tau), in thousandths
clipped_first_order_filter(input, target, max_rate, tau) ==
    LET rate == ((target - input) * 1000) \div tau
    IN  IF rate > max_rate THEN max_rate
        ELSE IF rate < -max_rate THEN -max_rate ELSE rate

\* a State as its constructor leaves it, in behavior state b with feet at fl
NewState(b, fl) ==
    [behavior_state |-> b, state |-> NoAttr, ticks |-> 0, foot_locations |-> fl,
     joint_angles |-> ZeroAngles, quat_orientation |-> <<0, 0>>,
     contact_modes |-> Zeros4]

\* the Commands: three event flags and the continuous fields
Commands ==
    [activate_event : BOOLEAN, trot_event : BOOLEAN, hop_event : BOOLEAN,
     yaw_rate : 0..MaxYawRate, roll : {0}, pitch : {0}]

\* measured orientations: decoded roll and pitch, in eighths of a radian
Angles8 == (-MaxAngle8)..MaxAngle8
Orientations == Angles8 \X Angles8
RunOrientations == {<<0, 0>>, <<MaxAngle8, -MaxAngle8>>}

----------------------------------------------------------------------------
(* Controller.__init__ *)

hop_transition_mapping ==
    ("REST" :> "HOP") @@ ("HOP" :> "FINISHHOP") @@ ("FINISHHOP" :> "REST")
trot_transition_mapping == ("REST" :> "TROT") @@ ("TROT" :> "REST")
activate_transition_mapping == ("DEACTIVATED" :> "REST") @@ ("REST" :> "DEACTIVATED")

NewController ==
    [smoothed_yaw |-> 0, previous_state |-> "REST",
     foot_locations |-> StancePlus(default_z_ref), contact_modes |-> Zeros4,
     joint_angles |-> four_legs_inverse_kinematics(StancePlus(default_z_ref), NoRotation)]

----------------------------------------------------------------------------
(* The outcome of a call *)

Outcome(st, ctl, exc, lines, value) ==
    [state |-> st, controller |-> ctl, raised |-> exc, executed |-> lines,
     returned |-> value]

NoReturn == [has |-> FALSE, foot_locations |-> Zeros34, contact_modes |-> Zeros4]


----------------------------------------------------------------------------
(* IEEE-754 doubles.  A double is [sign, exp, man]: man is its 53-bit        *)
(* significand as 5 limbs of 13 bits, least significant first, and its      *)
(* magnitude is (man / 2^52) * 2^exp; zero has man = 0.  The exponents of   *)
(* this model stay far from the subnormal and the overflow range.           *)

LimbBase == 2^13
ZeroLimbs == <<0, 0, 0, 0, 0>>
FZero == [sign |-> 0, exp |-> 0, man |-> ZeroLimbs]

IsZero(a) == a.man = ZeroLimbs
FNeg(a) == [a EXCEPT !.sign = 1 - @]
FAbs(a) == [a EXCEPT !.sign = 0]

\* carries of a limb sequence, from limb i on
RECURSIVE Propagate(_, _, _)
Propagate(l, i, carry) ==
    IF i > Len(l) THEN l
    ELSE LET v == l[i] + carry
         IN  Propagate([l EXCEPT ![i] = v % LimbBase], i + 1, v \div LimbBase)

\* the exact product of two significands: 10 limbs
ProductTerm(a, b, i, k) == IF (k - i + 1) \in 1..5 THEN a[i] * b[k - i + 1] ELSE 0
ProductLimbs(a, b) ==
    Propagate([k \in 1..10 |-> ProductTerm(a, b, 1, k) + ProductTerm(a, b, 2, k)
                              + ProductTerm(a, b, 3, k) + ProductTerm(a, b, 4, k)
                              + ProductTerm(a, b, 5, k)], 1, 0)

HalfLimbs(l) ==
    [i \in 1..5 |-> (l[i] \div 2)
                    + (IF i < 5 THEN (l[i + 1] % 2) * (LimbBase \div 2) ELSE 0)]

\* a * b, rounded to nearest, ties to even
FMul(a, b) ==
    IF IsZero(a) \/ IsZero(b)
    THEN [sign |-> (a.sign + b.sign) % 2, exp |-> 0, man |-> ZeroLimbs]
    ELSE LET p == ProductLimbs(a.man, b.man)
             wide == p[9] >= 2      \* the product has 106 bits, not 105
             top == <<p[5], p[6], p[7], p[8], p[9]>>
             q == IF wide THEN HalfLimbs(top) ELSE top
             low == <<p[1], p[2], p[3]>>
             guard == IF wide THEN p[5] % 2 = 1 ELSE p[4] >= LimbBase \div 2
             sticky == IF wide THEN low # <<0, 0, 0>> \/ p[4] # 0
                       ELSE low # <<0, 0, 0>> \/ p[4] % (LimbBase \div 2) # 0
             up == guard /\ (sticky \/ q[1] % 2 = 1)
             r == IF up THEN Propagate([q EXCEPT ![1] = @ + 1], 1, 0) ELSE q
             e == a.exp + b.exp + (IF wide THEN 1 ELSE 0)
         IN  IF r[5] >= 2
             THEN [sign |-> (a.sign + b.sign) % 2, exp |-> e + 1, man |-> HalfLimbs(r)]
             ELSE [sign |-> (a.sign + b.sign) % 2, exp |-> e, man |-> r]

RECURSIVE LimbsLt(_, _, _)
LimbsLt(a, b, i) ==
    IF i = 0 THEN FALSE
    ELSE IF a[i] # b[i] THEN a[i] < b[i] ELSE LimbsLt(a, b, i - 1)

MagLt(a, b) ==
    IF IsZero(b) THEN FALSE
    ELSE IF IsZero(a) THEN TRUE
    ELSE IF a.exp # b.exp THEN a.exp < b.exp
    ELSE LimbsLt(a.man, b.man, 5)

FLt(a, b) ==
    IF a.sign = 1 /\ b.sign = 0 THEN ~(IsZero(a) /\ IsZero(b))
    ELSE IF a.sign = 0 /\ b.sign = 1 THEN FALSE
    ELSE IF a.sign = 0 THEN MagLt(a, b) ELSE MagLt(b, a)

FLe(a, b) == ~FLt(b, a)

\* np.clip(x, lo, hi) == minimum(maximum(x, lo), hi)
clip(x, lo, hi) ==
    LET m == IF FLt(x, lo) THEN lo ELSE x
    IN  IF FLt(hi, m) THEN hi ELSE m

RECURSIVE BitLength(_)
BitLength(n) == IF n = 0 THEN 0 ELSE 1 + BitLength(n \div 2)

\* the double k/8, for an integer k of at most 14 bits: an angle quat2euler returns
FromEighths(k) ==
    IF k = 0 THEN FZero
    ELSE LET n == IF k < 0 THEN -k ELSE k
             len == BitLength(n)
         IN  [sign |-> IF k < 0 THEN 1 ELSE 0,
              exp |-> len - 4,
              man |-> <<0, 0, 0, (n - 2^(len - 1)) * 2^(14 - len), 1>>]

NoTilt ==
    [computed |-> FALSE, roll |-> FZero, pitch |-> FZero,
     roll_compensation |-> FZero, pitch_compensation |-> FZero]

----------------------------------------------------------------------------
(* Controller.step_gait(self, ticks, foot_locations, command), lines 50-76 *)

\* lines 61-75: the body of the loop for one leg; [raised, value]
StepLeg(contact_mode, ticks, foot_location, leg_index, cmd) ==
    IF contact_mode = 1
    THEN \* line 64 reads the bare name config
         IF ~Resolves("config", StepGaitLocals)
         THEN [raised |-> "NameError", value |-> foot_location]
         ELSE [raised |-> None,
               value |-> stance_next_foot_location(foot_location, cmd)]
    ELSE \* line 67 is evaluated before line 69 reads the bare name swing_controller
         IF ~Resolves("swing_controller", StepGaitLocals)
         THEN [raised |-> "NameError", value |-> foot_location]
         ELSE [raised |-> None,
               value |-> swing_next_foot_location(<<subphase_time(ticks), swing_ticks>>,
                                                  foot_location, leg_index - 1, cmd)]

\* lines 60-75: the loop from leg_index on; new is new_foot_locations so far
RECURSIVE StepLegs(_, _, _, _, _, _)
StepLegs(leg_index, contact_modes, ticks, fl, cmd, new) ==
    IF leg_index > 4 THEN [raised |-> None, value |-> new]
    ELSE LET r == StepLeg(contact_modes[leg_index], ticks, fl[leg_index], leg_index, cmd)
         IN  IF r.raised # None THEN [raised |-> r.raised, value |-> new]
             ELSE StepLegs(leg_index + 1, contact_modes, ticks, fl, cmd,
                           [new EXCEPT ![leg_index] = r.value])

\* [raised, returned]
step_gait(ticks, fl, cmd) ==
    \* line 58 reads self.contacts
    IF "contacts" \notin ControllerAttrs
    THEN [raised |-> "AttributeError", returned |-> NoReturn]
    ELSE LET contact_modes == contacts(ticks)
             r == StepLegs(1, contact_modes, ticks, fl, cmd, Zeros34)
         IN  IF r.raised # None
             THEN [raised |-> r.raised, returned |-> NoReturn]
             ELSE [raised |-> None,
                   returned |-> [has |-> TRUE, foot_locations |-> r.value,
                                 contact_modes |-> contact_modes]]

----------------------------------------------------------------------------
(* Controller.run(self, state, command), lines 79-177 *)

\* an entry of a transition table is written to state.state (lines 90, 92, 94)
Lookup(st, mapping, key, line) ==
    IF key = NoAttr
    THEN [state |-> st, raised |-> "AttributeError", executed |-> {}]
    ELSE IF key \notin DOMAIN mapping
    THEN [state |-> st, raised |-> "KeyError", executed |-> {}]
    ELSE [state |-> [st EXCEPT !.state = mapping[key]], raised |-> None,
          executed |-> {line}]

\* lines 89-94 with the trot test ahead of the activate test
TransitionTrotFirst(st, cmd) ==
    IF cmd.trot_event
    THEN Lookup(st, trot_transition_mapping, st.state, 92)
    ELSE IF cmd.activate_event
    THEN Lookup(st, activate_transition_mapping, st.behavior_state, 90)
    ELSE IF cmd.hop_event
    THEN Lookup(st, hop_transition_mapping, st.state, 94)
    ELSE [state |-> st, raised |-> None, executed |-> {}]

\* lines 89-94: activate reads state.behavior_state, trot and hop read state.state
Transition(st, cmd) ==
    IF cmd.activate_event
    THEN Lookup(st, activate_transition_mapping, st.behavior_state, 90)
    ELSE IF cmd.trot_event
    THEN Lookup(st, trot_transition_mapping, st.state, 92)
    ELSE IF cmd.hop_event
    THEN Lookup(st, hop_transition_mapping, st.state, 94)
    ELSE [state |-> st, raised |-> None, executed |-> {}]

\* lines 115-116
correction_factor == [sign |-> 0, exp |-> -1, man |-> <<6554, 3276, 1638, 4915, 1>>]
max_tilt == [sign |-> 0, exp |-> -2, man |-> <<6554, 3276, 1638, 4915, 1>>]

\* lines 117 and 118 in the other order: scaled first, clipped afterwards
CompensationScaleThenClip(angle) ==
    clip(FMul(correction_factor, angle), FNeg(max_tilt), max_tilt)

\* lines 117 and 118: correction_factor * np.clip(angle, -max_tilt, max_tilt)
Compensation(angle) ==
    FMul(correction_factor, clip(angle, FNeg(max_tilt), max_tilt))

\* lines 114-118, for the measured orientation q = <<roll, pitch>> in eighths
TiltCompensation(q) ==
    LET roll == FromEighths(q[1])
        pitch == FromEighths(q[2])
    IN  [computed |-> TRUE, roll |-> roll, pitch |-> pitch,
         roll_compensation |-> Compensation(roll),
         pitch_compensation |-> Compensation(pitch)]

\* lines 97-125.  The rotated foot_locations of line 121 is a local that
\* nothing reads afterwards: line 123 passes state.foot_locations.
TrotBranch(st, ctl, cmd, lines) ==
    IF Len(RunStepGaitArgs) # Len(StepGaitParams)
    THEN Outcome(st, ctl, "TypeError", lines, NoReturn)
    ELSE LET g == step_gait(st.ticks, st.foot_locations, cmd)
         IN  IF g.raised # None
             THEN Outcome(st, ctl, g.raised, lines, NoReturn)
             ELSE IF "inverse_kinematics" \notin ControllerAttrs
             THEN Outcome(st, ctl, "AttributeError", lines \cup {97, 121}, NoReturn)
             ELSE IF ~Resolves("config", RunLocals)
             THEN Outcome(st, ctl, "NameError", lines \cup {97, 121}, NoReturn)
             ELSE Outcome([st EXCEPT !.joint_angles =
                               four_legs_inverse_kinematics(st.foot_locations, NoRotation)],
                          ctl, None, lines \cup {97, 121, 123}, NoReturn)

\* lines 128-134
HopBranch(st, ctl, cmd, lines) ==
    LET s1 == [st EXCEPT !.foot_locations = StancePlus(-90)]
    IN  IF "inverse_kinematics" \notin ControllerAttrs
        THEN Outcome(s1, ctl, "AttributeError", lines \cup {128}, NoReturn)
        ELSE IF ~Resolves("hop_foot_locations", RunLocals)
                \/ ~Resolves("config", RunLocals)
        THEN Outcome(s1, ctl, "NameError", lines \cup {128}, NoReturn)
        ELSE Outcome([s1 EXCEPT !.joint_angles =
                          four_legs_inverse_kinematics(s1.foot_locations, NoRotation)],
                     ctl, None, lines \cup {128, 132}, NoReturn)

\* lines 137-143
FinishHopBranch(st, ctl, cmd, lines) ==
    LET s1 == [st EXCEPT !.foot_locations = StancePlus(-220)]
    IN  IF ~Resolves("inverse_kinematics", RunLocals)
        THEN Outcome(s1, ctl, "NameError", lines \cup {137}, NoReturn)
        ELSE Outcome([s1 EXCEPT !.joint_angles =
                          four_legs_inverse_kinematics(s1.foot_locations, NoRotation)],
                     ctl, None, lines \cup {137, 141}, NoReturn)

\* lines 159-175, reached once the filter step is done
RestPose(st, ctl, cmd, lines) ==
    IF ~Resolves("controller", RunLocals)
    THEN Outcome(st, ctl, "NameError", lines, NoReturn)
    ELSE LET s1 == [st EXCEPT !.foot_locations = StancePlus(default_z_ref)]
         IN  Outcome([s1 EXCEPT !.joint_angles =
                          four_legs_inverse_kinematics(s1.foot_locations,
                              <<cmd.roll, cmd.pitch, ctl.smoothed_yaw>>)],
                     ctl, None, lines \cup {160, 165, 173}, NoReturn)

\* lines 149-158: the filter step reads self.yaw_rate
RestFilter(st, ctl, cmd, lines) ==
    IF "yaw_rate" \notin ControllerAttrs
    THEN Outcome(st, ctl, "AttributeError", lines, NoReturn)
    ELSE LET step == (dt_ms * clipped_first_order_filter(ctl.smoothed_yaw,
                          (cmd.yaw_rate * (-250)), 1500, 250)) \div 1000
         IN  RestPose(st, [ctl EXCEPT !.smoothed_yaw = @ + step], cmd,
                      lines \cup {150})

\* lines 146-175
RestBranch(st, ctl, cmd, lines) ==
    IF ctl.previous_state # "REST"
    THEN \* line 147 assigns to the bare name controller
         IF ~Resolves("controller", RunLocals)
         THEN Outcome(st, ctl, "NameError", lines, NoReturn)
         ELSE RestFilter(st, [ctl EXCEPT !.smoothed_yaw = 0], cmd, lines \cup {147})
    ELSE RestFilter(st, ctl, cmd, lines)

\* lines 96-175 with the last branch taken by every other state as well
DispatchElseHop(st, ctl, cmd, lines) ==
    IF st.state = NoAttr THEN Outcome(st, ctl, "AttributeError", lines, NoReturn)
    ELSE IF st.state = "TROT" THEN TrotBranch(st, ctl, cmd, lines)
    ELSE IF st.state = "FINISHHOP" THEN FinishHopBranch(st, ctl, cmd, lines)
    ELSE IF st.state = "REST" THEN RestBranch(st, ctl, cmd, lines)
    ELSE HopBranch(st, ctl, cmd, lines)

\* lines 96-175: the dispatch reads state.state
Dispatch(st, ctl, cmd, lines) ==
    IF st.state = NoAttr THEN Outcome(st, ctl, "AttributeError", lines, NoReturn)
    ELSE IF st.state = "TROT" THEN TrotBranch(st, ctl, cmd, lines)
    ELSE IF st.state = "HOP" THEN HopBranch(st, ctl, cmd, lines)
    ELSE IF st.state = "FINISHHOP" THEN FinishHopBranch(st, ctl, cmd, lines)
    ELSE IF st.state = "REST" THEN RestBranch(st, ctl, cmd, lines)
    ELSE Outcome(st, ctl, None, lines, NoReturn)

run(st, ctl, cmd) ==
    LET t == Transition(st, cmd)
    IN  IF t.raised # None
        THEN Outcome(t.state, ctl, t.raised, t.executed, NoReturn)
        ELSE LET d == Dispatch(t.state, ctl, cmd, t.executed)
             IN  IF d.raised # None THEN d
                 ELSE \* line 177
                      Outcome([d.state EXCEPT !.ticks = @ + 1], d.controller, None,
                              d.executed \cup {177}, NoReturn)

----------------------------------------------------------------------------
(* Controller.set_pose_to_default(self), lines 180-187 *)

set_pose_to_default(st, ctl) ==
    \* line 181 evaluates controller.stance_params before it assigns
    IF ~Resolves("controller", SetPoseLocals)
    THEN Outcome(st, ctl, "NameError", {}, NoReturn)
    ELSE IF ~Resolves("state", SetPoseLocals)
    THEN Outcome(st, [ctl EXCEPT !.foot_locations = StancePlus(default_z_ref)],
                 "NameError", {181}, NoReturn)
    ELSE Outcome(st,
                 [ctl EXCEPT !.foot_locations = StancePlus(default_z_ref),
                             !.joint_angles =
                                 four_legs_inverse_kinematics(st.foot_locations, NoRotation)],
                 None, {181, 185}, NoReturn)

----------------------------------------------------------------------------
(* The state machine: a caller that owns one State and one Controller *)

NoCommand ==
    [activate_event |-> FALSE, trot_event |-> FALSE, hop_event |-> FALSE,
     yaw_rate |-> 0, roll |-> 0, pitch |-> 0]

HopOnly(cmd) == cmd.hop_event /\ ~cmd.activate_event /\ ~cmd.trot_event

Init ==
    /\ state \in {NewState(b, fl) : b \in BehaviorState,
                                    fl \in {Zeros34, StancePlus(default_z_ref)}}
    /\ controller = NewController
    /\ command = NoCommand
    /\ op = "__init__"
    /\ raised = None
    /\ executed = {}
    /\ returned = NoReturn
    /\ calls = 0
    /\ pre = [state |-> state, controller |-> controller]
    /\ hop_streak = 0
    /\ tilt = NoTilt

\* the caller stores the measured orientation and calls controller.run(state, command)
Run ==
    /\ calls < MaxCalls
    /\ \E cmd \in Commands, q \in RunOrientations :
         LET st0 == [state EXCEPT !.quat_orientation = q]
             r == run(st0, controller, cmd)
         IN  /\ state' = r.state
             /\ controller' = r.controller
             /\ command' = cmd
             /\ raised' = r.raised
             /\ executed' = r.executed
             /\ returned' = r.returned
             /\ pre' = [state |-> st0, controller |-> controller]
             /\ hop_streak' = IF ~HopOnly(cmd) THEN 0
                              ELSE IF hop_streak \in {1, 2} THEN hop_streak + 1
                              ELSE IF state.behavior_state = "REST" THEN 1 ELSE 0
    /\ op' = "run"
    /\ calls' = calls + 1
    /\ UNCHANGED tilt

\* the caller calls controller.step_gait(state.ticks, state.foot_locations, command)
StepGait ==
    /\ calls < MaxCalls
    /\ \E cmd \in Commands :
         LET g == step_gait(state.ticks, state.foot_locations, cmd)
         IN  /\ command' = cmd
             /\ raised' = g.raised
             /\ returned' = g.returned
    /\ op' = "step_gait"
    /\ executed' = {}
    /\ calls' = calls + 1
    /\ pre' = [state |-> state, controller |-> controller]
    /\ hop_streak' = 0
    /\ UNCHANGED <<state, controller, tilt>>

\* the caller calls controller.set_pose_to_default()
SetPoseToDefault ==
    /\ calls < MaxCalls
    /\ LET r == set_pose_to_default(state, controller)
       IN  /\ state' = r.state
           /\ controller' = r.controller
           /\ raised' = r.raised
           /\ executed' = r.executed
           /\ returned' = r.returned
    /\ op' = "set_pose_to_default"
    /\ calls' = calls + 1
    /\ pre' = [state |-> state, controller |-> controller]
    /\ hop_streak' = 0
    /\ UNCHANGED <<command, tilt>>

Next == Run \/ StepGait \/ SetPoseToDefault

Spec == Init /\ [][Next]_vars

----------------------------------------------------------------------------
(* The tilt compensation of a TROT tick as a function of the measured       *)
(* orientation: the caller stores an orientation, lines 114-118 compute.    *)

InitTilt == Init /\ state = NewState("TROT", StancePlus(default_z_ref))

Measure ==
    /\ \E q \in Orientations : state' = [state EXCEPT !.quat_orientation = q]
    /\ UNCHANGED <<controller, command, op, raised, executed, returned, calls,
                   pre, hop_streak, tilt>>

Compensate ==
    /\ tilt' = TiltCompensation(state.quat_orientation)
    /\ UNCHANGED <<state, controller, command, op, raised, executed, returned,
                   calls, pre, hop_streak>>

NextTilt == Measure \/ Compensate

SpecTilt == InitTilt /\ [][NextTilt]_vars

----------------------------------------------------------------------------
(* What the specification says of the behavior state *)

HighestEvent(cmd) ==
    IF cmd.activate_event THEN "activate"
    ELSE IF cmd.trot_event THEN "trot"
    ELSE IF cmd.hop_event THEN "hop" ELSE "none"

SpecTable(event) ==
    IF event = "activate" THEN ("DEACTIVATED" :> "REST") @@ ("REST" :> "DEACTIVATED")
    ELSE IF event = "trot" THEN ("REST" :> "TROT") @@ ("TROT" :> "REST")
    ELSE ("REST" :> "HOP") @@ ("HOP" :> "FINISHHOP") @@ ("FINISHHOP" :> "REST")

HasEntry(s, event) == event # "none" /\ s \in DOMAIN SpecTable(event)

SpecNext(s, cmd) ==
    IF HasEntry(s, HighestEvent(cmd)) THEN SpecTable(HighestEvent(cmd))[s] ELSE s

\* the command with every flag but the highest-priority one cleared
OnlyHighest(cmd) ==
    [cmd EXCEPT !.trot_event = @ /\ ~cmd.activate_event,
                !.hop_event = @ /\ ~cmd.activate_event /\ ~cmd.trot_event]

TransitionLines == {90, 92, 94}

----------------------------------------------------------------------------
(* The claims *)

\* C1: after run(), state.behavior_state is the entry of the highest-priority
\* set event's table for the behavior state before (activate: DEACTIVATED<->REST,
\* trot: REST<->TROT, hop: REST->HOP->FINISHHOP->REST), and is unchanged when
\* no event flag is set.
C1_BehaviorStateFollowsTables ==
    op = "run" => state.behavior_state = SpecNext(pre.state.behavior_state, command)

\* C2: when the honored event's table has no entry for the current behavior
\* state, run() does not fail and leaves the behavior state unchanged.
C2_TransitionIsTotal ==
    (/\ op = "run"
     /\ HighestEvent(command) # "none"
     /\ ~HasEntry(pre.state.behavior_state, HighestEvent(command)))
    => /\ raised = None
       /\ state.behavior_state = pre.state.behavior_state

\* C3: one run() call applies at most one transition, that of the
\* highest-priority set flag in the order activate > trot > hop, and the
\* lower-priority flags change nothing: the call ends exactly as it does with
\* those flags cleared, also when the honored event has no table entry.
C3_OnlyHighestPriorityEvent ==
    op = "run" =>
        /\ Cardinality(executed \cap TransitionLines) <= 1
        /\ 90 \in executed => HighestEvent(command) = "activate"
        /\ 92 \in executed => HighestEvent(command) = "trot"
        /\ 94 \in executed => HighestEvent(command) = "hop"
        /\ LET r == run(pre.state, pre.controller, OnlyHighest(command))
           IN  /\ state = r.state
               /\ controller = r.controller
               /\ raised = r.raised
               /\ executed = r.executed

\* C3 witness: activate and trot are both set where the trot table has an
\* entry (REST); the activate entry is written and the trot entry is not.
C3_Witness ==
    /\ op = "run"
    /\ command.activate_event /\ command.trot_event
    /\ pre.state.state = "REST"
    /\ 90 \in executed
    /\ state.state = "REST"

\* C4: every call to run() increases state.ticks by exactly 1.
C4_TicksIncrementEveryRun ==
    op = "run" => state.ticks = pre.state.ticks + 1

\* C5: run() with activate_event from DEACTIVATED ends with
\* behavior_state = REST and ticks incremented by 1, and from REST it ends with
\* behavior_state = DEACTIVATED.
C5_ActivateToggles ==
    (op = "run" /\ command.activate_event) =>
        /\ pre.state.behavior_state = "DEACTIVATED" =>
               (state.behavior_state = "REST" /\ state.ticks = pre.state.ticks + 1)
        /\ pre.state.behavior_state = "REST" => state.behavior_state = "DEACTIVATED"

\* C6: three consecutive hop-only run() calls from REST take the behavior
\* state to HOP, FINISHHOP and REST, with the feet at default_stance plus
\* -0.09, then -0.22, then default_z_ref.
C6_HopSequence ==
    /\ hop_streak = 1 =>
           (state.behavior_state = "HOP" /\ state.foot_locations = StancePlus(-90))
    /\ hop_streak = 2 =>
           (state.behavior_state = "FINISHHOP" /\ state.foot_locations = StancePlus(-220))
    /\ hop_streak = 3 =>
           (/\ state.behavior_state = "REST"
            /\ state.foot_locations = StancePlus(default_z_ref))

\* C7: on a run() call whose dispatch is on REST while the previous tick ended
\* in TROT, FINISHHOP or DEACTIVATED, the reset of smoothed_yaw to 0 (line 147)
\* is executed; when the previous tick also ended in REST it is not.
C7_YawResetOnEnteringRest ==
    (op = "run" /\ state.state = "REST") =>
        /\ pre.state.state \in {"TROT", "FINISHHOP", "DEACTIVATED"} => 147 \in executed
        /\ pre.state.state = "REST" => 147 \notin executed

\* C8: after a run() call that ends in REST, state.foot_locations is
\* default_stance plus default_z_ref, whatever the feet were before.
C8_RestPoseIsDefault ==
    (op = "run" /\ state.state = "REST") =>
        state.foot_locations = StancePlus(default_z_ref)

\* the literal 0.32, and the double next above it, 0.32000000000000006
Double032 == [sign |-> 0, exp |-> -2, man |-> <<5243, 7536, 6225, 2293, 1>>]
Double032Up == [sign |-> 0, exp |-> -2, man |-> <<5244, 7536, 6225, 2293, 1>>]

C10_StepGaitPerLeg ==
    op = "step_gait" =>
        /\ raised = None
        /\ returned.has
        /\ returned.contact_modes = contacts(pre.state.ticks)
        /\ DOMAIN returned.foot_locations = Legs
        /\ \A leg \in Legs :
               returned.foot_locations[leg] =
                   IF contacts(pre.state.ticks)[leg] = 1
                   THEN stance_next_foot_location(pre.state.foot_locations[leg], command)
                   ELSE swing_next_foot_location(
                            <<subphase_time(pre.state.ticks), swing_ticks>>,
                            pre.state.foot_locations[leg], leg - 1, command)

\* C11: set_pose_to_default(), in any behavior state, completes, sets
\* foot_locations to default_stance + default_z_ref and joint_angles to the
\* Kinematics result for them, and leaves behavior_state, ticks, smoothed_yaw
\* and previous_state unchanged.
C11_SetPoseToDefault ==
    op = "set_pose_to_default" =>
        /\ raised = None
        /\ controller.foot_locations = StancePlus(default_z_ref)
        /\ controller.joint_angles =
               four_legs_inverse_kinematics(StancePlus(default_z_ref), NoRotation)
        /\ state.behavior_state = pre.state.behavior_state
        /\ state.ticks = pre.state.ticks
        /\ controller.smoothed_yaw = pre.controller.smoothed_yaw
        /\ controller.previous_state = pre.controller.previous_state

\* the pairs <<state.behavior_state, state.state>> that run() calls lead to from st
PairsAfterRun(st, ctl, pair) ==
    {LET r == run([st EXCEPT !.behavior_state = pair[1], !.state = pair[2]], ctl, cmd)
     IN  <<r.state.behavior_state, r.state.state>> : cmd \in Commands}

RECURSIVE PairClosure(_, _, _)
PairClosure(st, ctl, pairs) ==
    LET more == pairs \cup UNION {PairsAfterRun(st, ctl, pair) : pair \in pairs}
    IN  IF more = pairs THEN pairs ELSE PairClosure(st, ctl, more)

ReachablePairs(st, ctl) == PairClosure(st, ctl, {<<st.behavior_state, st.state>>})

\* C12: a tick makes the behavior state DEACTIVATED only from REST with
\* activate_event set (or it was DEACTIVATED already), and from every state
\* some sequence of run() calls leads to behavior state REST.
C12_DeactivatedOnlyViaRestAndRestReachable ==
    op = "run" =>
        /\ (state.behavior_state = "DEACTIVATED"
            /\ pre.state.behavior_state # "DEACTIVATED")
           => (pre.state.behavior_state = "REST" /\ command.activate_event)
        /\ \E pair \in ReachablePairs(state, controller) : pair[1] = "REST"

\* C14: the transition step of run() changes state.behavior_state and no
\* other field of the State.
C14_TransitionWritesOnlyBehaviorState ==
    op = "run" =>
        LET t == Transition(pre.state, command)
        IN  t.state = [pre.state EXCEPT !.behavior_state = t.state.behavior_state]

\* C15: after a run() call, the Controller's previous_state is the
\* post-transition behavior state of that call, the one its dispatch read.
C15_PreviousStateRecorded ==
    (op = "run" /\ state.state # NoAttr) => controller.previous_state = state.state

\* what the specification says step_gait returns as foot locations
SpecStepGait(ticks, fl, cmd) ==
    [leg \in Legs |->
        IF contacts(ticks)[leg] = 1
        THEN stance_next_foot_location(fl[leg], cmd)
        ELSE swing_next_foot_location(<<subphase_time(ticks), swing_ticks>>,
                                      fl[leg], leg - 1, cmd)]

KinematicsLines == {123, 132, 141, 173}

\* C16: a run() call whose post-transition state is TROT, HOP, FINISHHOP or
\* REST computes the foot locations of that state's branch (the gait step with
\* the ticks value before the increment, the HOP crouch on the tick of the
\* hop event), then stores the Kinematics result, then increments ticks.
C16_FourOrderedEffects ==
    (op = "run" /\ state.state \in {"TROT", "HOP", "FINISHHOP", "REST"}) =>
        /\ state.state = "HOP" => state.foot_locations = StancePlus(-90)
        /\ state.state = "FINISHHOP" => state.foot_locations = StancePlus(-220)
        /\ state.state = "REST" => state.foot_locations = StancePlus(default_z_ref)
        /\ state.state = "TROT" =>
               state.foot_locations =
                   SpecStepGait(pre.state.ticks, pre.state.foot_locations, command)
        /\ executed \cap KinematicsLines # {}
        /\ 177 \in executed
        /\ state.ticks = pre.state.ticks + 1

\* C17: on a TROT tick, state.foot_locations becomes this tick's step_gait
\* result and state.joint_angles the Kinematics result for that result
\* rotated by the transpose of the tilt-compensation matrix.
C17_TrotUsesNewFootLocations ==
    (op = "run" /\ state.state = "TROT") =>
        /\ raised = None
        /\ state.foot_locations =
               SpecStepGait(pre.state.ticks, pre.state.foot_locations, command)
        /\ LET t == TiltCompensation(pre.state.quat_orientation)
           IN  state.joint_angles =
                   [computed |-> TRUE, from |-> state.foot_locations,
                    rot |-> <<"transpose", t.roll_compensation, t.pitch_compensation>>]

\* C18: a tick that ends in HOP or FINISHHOP completes, with the feet at
\* default_stance plus -0.09 (HOP) or -0.22 (FINISHHOP) and state.joint_angles
\* the Kinematics result for exactly those foot locations.
C18_HopPoseAndAngles ==
    (op = "run" /\ state.state \in {"HOP", "FINISHHOP"}) =>
        /\ raised = None
        /\ state.foot_locations =
               StancePlus(IF state.state = "HOP" THEN -90 ELSE -220)
        /\ state.joint_angles =
               four_legs_inverse_kinematics(state.foot_locations, NoRotation)

\* C19: after a run() call that ends in TROT, state.contact_modes is the 4
\* contact flags of the gait schedule for the ticks value used on that call.
C19_ContactModesStored ==
    (op = "run" /\ state.state = "TROT") =>
        state.contact_modes = contacts(pre.state.ticks)

\* C20: a run() call whose dispatch is on DEACTIVATED changes nothing of the
\* State but the behavior state the dispatch reads and ticks (incremented
\* when the call returns) and nothing of the Controller; and a run() call
\* that changes smoothed_yaw ends in REST.
C20_DeactivatedTickChangesNothingElse ==
    op = "run" =>
        /\ state.state = "DEACTIVATED" =>
               /\ state = [pre.state EXCEPT !.state = state.state,
                                            !.ticks = state.ticks]
               /\ controller = pre.controller
        /\ (state.state = "DEACTIVATED" /\ raised = None) =>
               state.ticks = pre.state.ticks + 1
        /\ controller.smoothed_yaw # pre.controller.smoothed_yaw =>
               state.state = "REST"

\* C20 witness: a run() call with no event flag set, begun and ended in
\* DEACTIVATED, has returned and incremented ticks.
C20_Witness ==
    /\ op = "run"
    /\ HighestEvent(command) = "none"
    /\ pre.state.state = "DEACTIVATED"
    /\ state.state = "DEACTIVATED"
    /\ raised = None
    /\ state.ticks = pre.state.ticks + 1

====
